---- MODULE Spec2Model ----
(***************************************************************************)
(* ruspiro-uart: the Uart0 (Pl011) and Uart1 (miniUART) drivers.           *)
(*                                                                         *)
(* The state is the driver handles (struct Uart0 / struct Uart1 with their *)
(* `initialized` flag), the used-pin bitmap of the GPIO singleton the      *)
(* drivers lease their two pins from, the peripheral registers, the static *)
(* callback slots, the interrupt lines activated at the interrupt manager  *)
(* and the transfer call in progress (the polling loops are stepped).      *)
(*                                                                         *)
(* The two drivers share no state of their own (distinct statics,          *)
(* registers, pins and interrupt lines), so a behaviour exercises one of   *)
(* them: `variant` is drawn in Init and never changes.                     *)
(*                                                                         *)
(* A u32 word is written as a TLA+ integer; the word 0xFFFF_FFFF is        *)
(* written -1 (its two's complement reading).                              *)
(***************************************************************************)
EXTENDS Integers, Sequences, FiniteSets, TLC

VARIABLES
    variant,      \* "Uart0" | "Uart1": the driver this behaviour exercises
    alive,        \* [Handles -> BOOLEAN]: the handle exists (new .. drop)
    initialized,  \* [Handles -> BOOLEAN]: the struct's `initialized` field
    usedPins,     \* the GPIO singleton's used-pin bitmap, as a set of pins
    lessee,       \* ghost: who made the acquisition that holds each pin
    reg,          \* [RegNames -> word]: the peripheral's registers
    handler,      \* [Slots -> callback]: the static callback slots, 0 = None
    irqActive,    \* interrupt lines activated at IRQ_MANAGER
    call,         \* the transfer call in progress (its polling loop)
    lastOp        \* ghost: what the last API call did

vars == <<variant, alive, initialized, usedPins, lessee, reg, handler,
          irqActive, call, lastOp>>

----------------------------------------------------------------------------
(* Bounds of the model *)

\* handles of the exercised driver that may exist at once
MaxHandles == 2
\* distinct callbacks an application registers
MaxCb == 1
\* status reads of one call that are counted
MaxPolls == 1

Handles == 1..MaxHandles
Variants == {"Uart0", "Uart1"}
Callbacks == 1..MaxCb

\* the (clock_rate, baud_rate) pairs the applications pass: those of the
\* examples in the documentation of Uart0::initialize and Uart1::initialize
Rates == {<<3000000, 115200>>, <<250000000, 115200>>}
\* the pair of the example of the exercised driver
DocRate == IF variant = "Uart0" THEN <<3000000, 115200>>
                                ELSE <<250000000, 115200>>

\* the byte buffers, chars and strings the applications send, and the
\* lengths of the buffers they receive into
Buffers == {<<>>, <<65, 66>>}
Chars == {233}
Strings == {<<>>, <<65, 233>>}
Lengths == {0, 2}

----------------------------------------------------------------------------
(* The GPIO singleton (ruspiro_gpio::GPIO), as the drivers use it: a pin   *)
(* number goes in, the Pin that get_pin returns is configured and dropped  *)
(* at once, and free_pin takes the bare pin number.                        *)

Uart0Pins == {32, 33}
Uart1Pins == {14, 15}
Pins == Uart0Pins \cup Uart1Pins
PinsOf(v) == IF v = "Uart0" THEN Uart0Pins ELSE Uart1Pins

NoOne == <<"none", 0>>
OtherClient == <<"other", 0>>
Holder(h) == <<"handle", h>>

\* gpio.get_pin(pin): fails when the pin is in use, else marks it used
get_pin(used, pin) ==
    IF pin \in used THEN [ok |-> FALSE, used |-> used]
                    ELSE [ok |-> TRUE, used |-> used \cup {pin}]

\* gpio.free_pin(pin): marks the pin unused, whoever asks
free_pin(used, pin) == used \ {pin}

----------------------------------------------------------------------------
(* Registers and register fields (ruspiro_register) *)

Uart0Regs == {"UART0_IBRD", "UART0_FBRD", "UART0_LCRH", "UART0_CR",
              "UART0_IFLS", "UART0_IMSC"}
Uart1Regs == {"AUX_ENABLES", "AUX_MU_IER_REG", "AUX_MU_LCR_REG",
              "AUX_MU_MCR_REG", "AUX_MU_CNTL_REG", "AUX_MU_BAUD_REG"}
\* registers whose writes act at once and hold no configuration
StrobeRegs == {"UART0_DR", "UART0_ICR", "AUX_MU_IO_REG", "AUX_MU_IIR_REG"}
RegNames == Uart0Regs \cup Uart1Regs

Field(off, width) == [off |-> off, width |-> width]

FieldGet(val, f) == (val \div (2 ^ f.off)) % (2 ^ f.width)

\* the register value with field f replaced by v masked to the field's width
FieldPut(val, f, v) ==
    val - FieldGet(val, f) * (2 ^ f.off) + (v % (2 ^ f.width)) * (2 ^ f.off)

\* Register.set(value)
RegSet(r, value) == [reg |-> r, set |-> TRUE, val |-> value, fv |-> <<>>]
\* Register.write(field, value) and Register.write_value(f1 | f2 | ..)
RegWrite(r, fvs) == [reg |-> r, set |-> FALSE, val |-> 0, fv |-> fvs]

RECURSIVE PutAll(_, _)
PutAll(val, fvs) ==
    IF fvs = <<>> THEN val
    ELSE PutAll(FieldPut(val, Head(fvs)[1], Head(fvs)[2]), Tail(fvs))

\* the value a register holds after the access
RegApply(old, op) == IF op.set THEN op.val ELSE PutAll(old, op.fv)

\* the registers after a sequence of accesses, in order
RECURSIVE ApplyWrites(_, _)
ApplyWrites(regs, ops) ==
    IF ops = <<>> THEN regs
    ELSE LET op == Head(ops)
             old == IF op.reg \in RegNames THEN regs[op.reg] ELSE 0
             next == IF op.reg \in RegNames
                     THEN [regs EXCEPT ![op.reg] = RegApply(old, op)]
                     ELSE regs
         IN  ApplyWrites(next, Tail(ops))

\* what the log of an operation keeps of its accesses: register and value
RECURSIVE WriteLog(_, _)
WriteLog(regs, ops) ==
    IF ops = <<>> THEN <<>>
    ELSE LET op == Head(ops)
             old == IF op.reg \in RegNames THEN regs[op.reg] ELSE 0
         IN  <<<<op.reg, RegApply(old, op)>>>>
             \o WriteLog(ApplyWrites(regs, <<op>>), Tail(ops))

----------------------------------------------------------------------------
(* Baud divisors *)

\* the divisors with the fraction rounded down
Uart0Divisors_round_down(clock_rate, baud_rate) ==
    LET baud16 == baud_rate * 16
        frac_div2 == ((clock_rate % baud16) * 8) \div baud_rate
    IN  [int_div |-> clock_rate \div baud16, frac_div |-> frac_div2 \div 2]

\* uart0/interface.rs: baud16, int_div, frac_div2, frac_div
Uart0Divisors(clock_rate, baud_rate) ==
    LET baud16 == baud_rate * 16
        int_div == clock_rate \div baud16
        frac_div2 == ((clock_rate % baud16) * 8) \div baud_rate
        frac_div == (frac_div2 \div 2) + (frac_div2 % 2)
    IN  [int_div |-> int_div, frac_div |-> frac_div]

\* the divisor without the decrement
Uart1Divisor_no_decrement(clock_rate, baud_rate) == clock_rate \div (8 * baud_rate)

\* uart1/interface.rs: clock_rate / (8 * baud_rate) - 1, a u32 subtraction:
\* 0 - 1 aborts when overflow checks are compiled in and wraps otherwise
Uart1Divisor(clock_rate, baud_rate) == clock_rate \div (8 * baud_rate) - 1

Uart1DivisorUnderflows(clock_rate, baud_rate) ==
    clock_rate \div (8 * baud_rate) = 0

----------------------------------------------------------------------------
(* The initialization sequences *)

\* uart0/interface.rs init: the lease of pins 32 and 33, `?` after each
Uart0Lease(used) ==
    LET a == get_pin(used, 32)
    IN  IF ~a.ok THEN [ok |-> FALSE, used |-> a.used]
        ELSE LET b == get_pin(a.used, 33)
             IN  [ok |-> b.ok, used |-> b.used]

\* uart1/interface.rs uart1_init: the lease of pins 14 and 15
Uart1Lease(used) ==
    LET a == get_pin(used, 14)
    IN  IF ~a.ok THEN [ok |-> FALSE, used |-> a.used]
        ELSE LET b == get_pin(a.used, 15)
             IN  [ok |-> b.ok, used |-> b.used]

\* register fields the sequences name
UART_EN == Field(0, 1)
TXE == Field(8, 1)
RXE == Field(9, 1)
WLEN == Field(5, 2)
FEN == Field(4, 1)
RXIFSEL == Field(3, 3)
INT_RX == Field(4, 1)
INT_OE == Field(10, 1)
MINIUART_ENABLE == Field(0, 1)
SPI1_ENABLE == Field(1, 1)
SPI2_ENABLE == Field(2, 1)
DATASIZE == Field(0, 2)
IRQID_FIFOCLR == Field(1, 2)
FIFO_ENABLES == Field(6, 2)
RCV_ENABLE == Field(0, 1)
TRANS_ENABLE == Field(1, 1)
RX_ENABLE == Field(0, 1)
TX_ENABLE == Field(1, 1)
RCV_IRQ == Field(2, 2)

\* uart0/interface.rs init: the register accesses after a successful lease
Uart0InitWrites(clock_rate, baud_rate) ==
    LET d == Uart0Divisors(clock_rate, baud_rate)
    IN  << RegSet("UART0_CR", 0),
           RegSet("UART0_IMSC", 0),
           RegSet("UART0_ICR", 2047),
           RegSet("UART0_IBRD", d.int_div),
           RegSet("UART0_FBRD", d.frac_div),
           RegWrite("UART0_IFLS", << <<RXIFSEL, 0>> >>),
           RegWrite("UART0_LCRH", << <<WLEN, 3>>, <<FEN, 1>> >>),
           RegWrite("UART0_CR", << <<UART_EN, 1>>, <<TXE, 1>>, <<RXE, 1>> >>),
           RegWrite("UART0_IMSC", << <<INT_RX, 1>>, <<INT_OE, 1>> >>) >>

\* uart1/interface.rs uart1_init: the register accesses after a successful lease
\* the sequence with the mini UART enabled by a store to the whole register
Uart1InitWrites_set_enables(clock_rate, baud_rate) ==
    << RegSet("AUX_ENABLES", 1),
       RegSet("AUX_MU_IER_REG", 0),
       RegSet("AUX_MU_CNTL_REG", 0),
       RegWrite("AUX_MU_LCR_REG", << <<DATASIZE, 3>> >>),
       RegSet("AUX_MU_MCR_REG", 0),
       RegSet("AUX_MU_IER_REG", 0),
       RegWrite("AUX_MU_IIR_REG", << <<IRQID_FIFOCLR, 3>>, <<FIFO_ENABLES, 3>> >>),
       RegSet("AUX_MU_BAUD_REG", Uart1Divisor(clock_rate, baud_rate)),
       RegWrite("AUX_MU_CNTL_REG", << <<RCV_ENABLE, 1>>, <<TRANS_ENABLE, 1>> >>) >>

Uart1InitWrites(clock_rate, baud_rate) ==
    << RegWrite("AUX_ENABLES", << <<MINIUART_ENABLE, 1>> >>),
       RegSet("AUX_MU_IER_REG", 0),
       RegSet("AUX_MU_CNTL_REG", 0),
       RegWrite("AUX_MU_LCR_REG", << <<DATASIZE, 3>> >>),
       RegSet("AUX_MU_MCR_REG", 0),
       RegSet("AUX_MU_IER_REG", 0),
       RegWrite("AUX_MU_IIR_REG", << <<IRQID_FIFOCLR, 3>>, <<FIFO_ENABLES, 3>> >>),
       RegSet("AUX_MU_BAUD_REG", Uart1Divisor(clock_rate, baud_rate)),
       RegWrite("AUX_MU_CNTL_REG", << <<RCV_ENABLE, 1>>, <<TRANS_ENABLE, 1>> >>) >>

\* init that disables the peripheral before it asks for the pins
init_disable_first(used, clock_rate, baud_rate) ==
    LET l == Uart0Lease(used)
    IN  [ok |-> l.ok, used |-> l.used,
         writes |-> IF l.ok THEN Uart0InitWrites(clock_rate, baud_rate)
                            ELSE << RegSet("UART0_CR", 0) >>]

\* uart0/interface.rs init: [ok, used, writes]
init(used, clock_rate, baud_rate) ==
    LET l == Uart0Lease(used)
    IN  [ok |-> l.ok, used |-> l.used,
         writes |-> IF l.ok THEN Uart0InitWrites(clock_rate, baud_rate) ELSE <<>>]

\* uart1/interface.rs uart1_init: [ok, used, writes]
uart1_init(used, clock_rate, baud_rate) ==
    LET l == Uart1Lease(used)
    IN  [ok |-> l.ok, used |-> l.used,
         writes |-> IF l.ok THEN Uart1InitWrites(clock_rate, baud_rate) ELSE <<>>]

\* Uart0::initialize that stores whether init succeeded in the flag
Uart0_initialize_flag_from_result(was, used, clock_rate, baud_rate) ==
    LET l == Uart0Lease(used)
    IN  [res |-> IF l.ok THEN "Ok" ELSE "InitializationFailed",
         initialized |-> l.ok, used |-> l.used,
         writes |-> IF l.ok THEN Uart0InitWrites(clock_rate, baud_rate) ELSE <<>>]

\* Uart0::initialize: the flag is set in the map over the Ok of init
Uart0_initialize(was, used, clock_rate, baud_rate) ==
    LET r == init(used, clock_rate, baud_rate)
    IN  [res |-> IF r.ok THEN "Ok" ELSE "InitializationFailed",
         initialized |-> IF r.ok THEN TRUE ELSE was,
         used |-> r.used, writes |-> r.writes]

\* Uart1::initialize: the Result of the HAL lease of pin 14 (hal_ok) is
\* dropped, uart1_init(..)? returns its error, then the flag is set
Uart1_initialize(was, used, clock_rate, baud_rate, hal_ok) ==
    LET r == uart1_init(used, clock_rate, baud_rate)
    IN  [res |-> IF r.ok THEN "Ok" ELSE "GPIO error",
         initialized |-> IF r.ok THEN TRUE ELSE was,
         used |-> r.used, writes |-> r.writes]

\* release that frees the first pin only
release_first_pin(used) == free_pin(used, 32)

\* uart0/interface.rs release and uart1/interface.rs uart1_release
release(used) == free_pin(free_pin(used, 32), 33)
uart1_release(used) == free_pin(free_pin(used, 14), 15)

----------------------------------------------------------------------------
(* State *)

Slots == {"UART0_INTERRUPT_CB", "RCV_HANDLER", "TRN_HANDLER"}
IrqLines == {"Pl011", "Aux"}

\* the thread's position: no call in progress, the program aborted, or
\* inside the polling loop of a transfer with `todo` still to send or
\* `want` bytes still to receive
Idle == [op |-> "idle", h |-> 0, todo |-> <<>>, want |-> 0]
Panicked == [op |-> "panicked", h |-> 0, todo |-> <<>>, want |-> 0]

\* the log of an API call: the handle's flag and the pin bitmap before it,
\* its arguments, its result, the register writes it made in order, the
\* status reads it made (polls, counted up to MaxPolls), the wait iterations
\* of its last bounded single-byte receive, the bytes it took from the data
\* register, the interrupt status it returned, the callback slots it wrote
\* and the interrupt lines it activated at the interrupt manager; for an
\* initialize call, the registers before it and whether it comes right
\* after a successful initialize of the same handle with the same rates;
\* for a transfer, the bytes to send (data), the number of bytes to send or
\* to receive (len), the bit its last status read returned (seen, -1 before
\* the first read) and the n of a returned Ok(n) (count, -1 otherwise); for
\* an interrupt call, its direction argument, the callback slots and the
\* activated lines before it, and the callback it was given (cb); for an
\* interrupt handler, the callbacks it invoked and its register accesses and
\* callback calls in order (events); for send_hex, its argument (value); for
\* try_receive_data, how many times the data register was read (reads)
OpLog(op, h, res, writes) ==
    [op |-> op, h |-> h, res |-> res, writes |-> writes,
     wasInit |-> initialized[h], prePins |-> usedPins,
     clock |-> 0, baud |-> 0, hal |-> "none",
     polls |-> 0, waits |-> 0, got |-> <<>>, status |-> 0,
     slotWrites |-> {}, activated |-> {},
     again |-> FALSE, preReg |-> <<>>,
     data |-> <<>>, len |-> 0, seen |-> -1, count |-> -1,
     irq_type |-> "none", preHandler |-> <<>>, preIrq |-> {},
     invoked |-> <<>>, cb |-> 0, events |-> <<>>, value |-> <<>>,
     reads |-> 0]

Boot == [op |-> "boot", h |-> 0, res |-> "none", writes |-> <<>>,
         wasInit |-> FALSE, prePins |-> {},
         clock |-> 0, baud |-> 0, hal |-> "none",
         polls |-> 0, waits |-> 0, got |-> <<>>, status |-> 0,
         slotWrites |-> {}, activated |-> {},
         again |-> FALSE, preReg |-> <<>>,
         data |-> <<>>, len |-> 0, seen |-> -1, count |-> -1,
         irq_type |-> "none", preHandler |-> <<>>, preIrq |-> {},
         invoked |-> <<>>, cb |-> 0, events |-> <<>>, value |-> <<>>,
     reads |-> 0]

\* AUX_ENABLES is shared with the two SPI masters of the AUX block: another
\* driver has enabled SPI1 (bit 1) and left SPI2 (bit 2) disabled
ResetRegs == [r \in RegNames |-> IF r = "AUX_ENABLES" THEN 2 ELSE 0]

Init ==
    /\ variant \in Variants
    /\ alive = [h \in Handles |-> FALSE]
    /\ initialized = [h \in Handles |-> FALSE]
    /\ usedPins = {}
    /\ lessee = [p \in Pins |-> NoOne]
    /\ reg = ResetRegs
    /\ handler = [s \in Slots |-> 0]
    /\ irqActive = {}
    /\ call = Idle
    /\ lastOp = Boot

\* the ghost owner of each pin after a call of handle h changed the bitmap
Lessees(used, who) ==
    [p \in Pins |-> IF p \notin used THEN NoOne
                    ELSE IF p \in usedPins THEN lessee[p]
                    ELSE who]

----------------------------------------------------------------------------
(* Lifecycle *)

\* the call about to be logged is an initialize that comes right after a
\* successful initialize of the same handle with the same rates
Again(h, clock_rate, baud_rate) ==
    /\ lastOp.op = "initialize" /\ lastOp.res = "Ok" /\ lastOp.h = h
    /\ lastOp.clock = clock_rate /\ lastOp.baud = baud_rate

\* Uart0::new / Uart1::new
New(h) ==
    /\ call = Idle
    /\ ~alive[h]
    /\ alive' = [alive EXCEPT ![h] = TRUE]
    /\ initialized' = [initialized EXCEPT ![h] = FALSE]
    /\ lastOp' = OpLog("new", h, "none", <<>>)
    /\ UNCHANGED <<variant, usedPins, lessee, reg, handler, irqActive, call>>

\* Uart0::initialize(clock_rate, baud_rate)
Uart0Initialize(h, clock_rate, baud_rate) ==
    /\ variant = "Uart0"
    /\ call = Idle
    /\ alive[h]
    /\ LET r == Uart0_initialize(initialized[h], usedPins, clock_rate, baud_rate)
       IN  /\ initialized' = [initialized EXCEPT ![h] = r.initialized]
           /\ usedPins' = r.used
           /\ lessee' = Lessees(r.used, Holder(h))
           /\ reg' = ApplyWrites(reg, r.writes)
           /\ lastOp' = [OpLog("initialize", h, r.res, WriteLog(reg, r.writes))
                           EXCEPT !.clock = clock_rate, !.baud = baud_rate,
                                  !.preReg = reg,
                                  !.again = Again(h, clock_rate, baud_rate)]
    /\ UNCHANGED <<variant, alive, handler, irqActive, call>>

\* Uart1::initialize(clock_rate, baud_rate); hal_ok is what the HAL lease of
\* pin 14 returned. With overflow checks compiled in, the divisor's 0 - 1
\* aborts the program at the write of the baud register
Uart1Initialize(h, clock_rate, baud_rate) ==
    /\ variant = "Uart1"
    /\ call = Idle
    /\ alive[h]
    /\ \E hal_ok \in BOOLEAN,
          checked \in {c \in BOOLEAN :
                          c => Uart1DivisorUnderflows(clock_rate, baud_rate)} :
         LET r == Uart1_initialize(initialized[h], usedPins, clock_rate,
                                   baud_rate, hal_ok)
             aborts == /\ checked
                       /\ r.writes # <<>>
                       /\ Uart1DivisorUnderflows(clock_rate, baud_rate)
             writes == IF aborts THEN SubSeq(r.writes, 1, 7) ELSE r.writes
         IN  /\ initialized' = [initialized EXCEPT
                                  ![h] = IF aborts THEN @ ELSE r.initialized]
             /\ usedPins' = r.used
             /\ lessee' = Lessees(r.used, Holder(h))
             /\ reg' = ApplyWrites(reg, writes)
             /\ call' = IF aborts THEN Panicked ELSE call
             /\ lastOp' = [OpLog("initialize", h,
                                 IF aborts THEN "panic" ELSE r.res,
                                 WriteLog(reg, writes))
                             EXCEPT !.clock = clock_rate, !.baud = baud_rate,
                                    !.hal = IF hal_ok THEN "ok" ELSE "failed",
                                    !.preReg = reg,
                                    !.again = Again(h, clock_rate, baud_rate)]
    /\ UNCHANGED <<variant, alive, handler, irqActive>>

\* impl Drop for Uart0 / Uart1
Drop(h) ==
    /\ call = Idle
    /\ alive[h]
    /\ LET used == IF variant = "Uart0" THEN release(usedPins)
                                        ELSE uart1_release(usedPins)
       IN  /\ usedPins' = used
           /\ lessee' = Lessees(used, NoOne)
    /\ alive' = [alive EXCEPT ![h] = FALSE]
    /\ initialized' = [initialized EXCEPT ![h] = FALSE]
    /\ lastOp' = OpLog("drop", h, "none", <<>>)
    /\ UNCHANGED <<variant, reg, handler, irqActive, call>>

\* another client of the GPIO singleton takes one of the pins
OtherGetPin(p) ==
    /\ call = Idle
    /\ LET r == get_pin(usedPins, p)
       IN  /\ r.ok
           /\ usedPins' = r.used
           /\ lessee' = Lessees(r.used, OtherClient)
    /\ lastOp' = [Boot EXCEPT !.op = "other_get_pin", !.prePins = usedPins]
    /\ UNCHANGED <<variant, alive, initialized, reg, handler, irqActive, call>>

\* and frees a pin it took
OtherFreePin(p) ==
    /\ call = Idle
    /\ p \in usedPins
    /\ lessee[p] = OtherClient
    /\ usedPins' = free_pin(usedPins, p)
    /\ lessee' = Lessees(usedPins', NoOne)
    /\ lastOp' = [Boot EXCEPT !.op = "other_free_pin", !.prePins = usedPins]
    /\ UNCHANGED <<variant, alive, initialized, reg, handler, irqActive, call>>

----------------------------------------------------------------------------
(* Transfers: the guards of the API calls *)

\* Uart0::send_data without the check of the flag
Uart0_send_data_unguarded(inited) == [enter |-> TRUE, res |-> "Ok"]

\* Uart0::send_data
Uart0_send_data(inited) ==
    IF inited THEN [enter |-> TRUE, res |-> "Ok"]
              ELSE [enter |-> FALSE, res |-> "UartNotInitialized"]

\* Uart0::receive_data that tests the buffer before the flag
Uart0_receive_data_buffer_first(inited, len) ==
    IF len = 0 THEN [enter |-> FALSE, res |-> "ReceiveBufferEmpty"]
    ELSE IF inited THEN [enter |-> TRUE, res |-> "Ok"]
    ELSE [enter |-> FALSE, res |-> "UartNotInitialized"]

\* Uart0::receive_data
Uart0_receive_data(inited, len) ==
    IF inited
    THEN IF len = 0 THEN [enter |-> FALSE, res |-> "ReceiveBufferEmpty"]
                    ELSE [enter |-> TRUE, res |-> "Ok"]
    ELSE [enter |-> FALSE, res |-> "UartNotInitialized"]

\* Uart1::send_char, Uart1::send_string, Uart1::send_data
Uart1_send_char(inited) == [enter |-> inited, res |-> "none"]
Uart1_send_string(inited) == [enter |-> inited, res |-> "none"]
Uart1_send_data(inited) == [enter |-> inited, res |-> "none"]

\* Uart1::send_hex: its send_string and send_char calls test the same flag
Uart1_send_hex(inited) == [enter |-> inited, res |-> "none"]

\* Uart1::try_receive_data
Uart1_try_receive_data(inited, len) ==
    IF inited
    THEN IF len = 0
         THEN [enter |-> FALSE, res |-> "buffer size expected to be at least 1"]
         ELSE [enter |-> TRUE, res |-> "Ok"]
    ELSE [enter |-> FALSE, res |-> "Uart not initialized"]

\* Uart1::receive_data
Uart1_receive_data(inited, len) ==
    IF inited
    THEN IF len = 0
         THEN [enter |-> FALSE, res |-> "buffer size expected to be at least 1"]
         ELSE [enter |-> TRUE, res |-> "Ok"]
    ELSE [enter |-> FALSE, res |-> "Uart not initialized"]

\* `c as u8` of a char
CharAsU8(c) == c % 256

\* str::as_bytes: the UTF-8 encoding (code points below 0x800)
RECURSIVE AsBytes(_)
AsBytes(s) ==
    IF s = <<>> THEN <<>>
    ELSE LET c == Head(s)
         IN  (IF c < 128 THEN <<c>>
              ELSE <<192 + (c \div 64), 128 + (c % 64)>>) \o AsBytes(Tail(s))

\* a u64 as its 16 hexadecimal digits, the least significant first
HexDigits == 16
U64Zero == [i \in 1..HexDigits |-> 0]

\* the u64 with the hexadecimal digits ds, the most significant first
U64(ds) ==
    [i \in 1..HexDigits |-> IF i <= Len(ds) THEN ds[Len(ds) + 1 - i] ELSE 0]

\* tmp & 0xF and tmp >> 4
LowNibble(tmp) == tmp[1]
ShiftRight4(tmp) == Tail(tmp) \o <<0>>

\* b"0123456789ABCDEF"
HEXCHAR == <<48, 49, 50, 51, 52, 53, 54, 55, 56, 57, 65, 66, 67, 68, 69, 70>>

\* the while loop of send_hex: hex[idx] = HEXCHAR[tmp & 0xF]; tmp >>= 4;
\* idx += 1, with the array hex indexed from 1
RECURSIVE HexLoop(_, _, _)
HexLoop(tmp, hex, idx) ==
    IF tmp = U64Zero THEN hex
    ELSE HexLoop(ShiftRight4(tmp),
                 [hex EXCEPT ![idx + 1] = HEXCHAR[LowNibble(tmp) + 1]], idx + 1)

\* the for loop of send_hex from i on: send_char(hex[15 - i] as char) for
\* the entries that are not 0
RECURSIVE HexChars(_, _)
HexChars(hex, i) ==
    IF i = HexDigits THEN <<>>
    ELSE (IF hex[HexDigits - i] # 0 THEN <<CharAsU8(hex[HexDigits - i])>> ELSE <<>>)
         \o HexChars(hex, i + 1)

\* send_hex that leaves out every digit 0
send_hex_without_zeros(value) ==
    LET RECURSIVE NonZero(_)
        NonZero(i) ==
            IF i = 0 THEN <<>>
            ELSE (IF value[i] # 0 THEN <<HEXCHAR[value[i] + 1]>> ELSE <<>>)
                 \o NonZero(i - 1)
    IN  IF value = U64Zero THEN AsBytes(<<48, 120, 48>>)
        ELSE AsBytes(<<48, 120>>) \o NonZero(HexDigits)

\* Uart1::send_hex: the bytes it passes to send_string and send_char
send_hex(value) ==
    IF value = U64Zero THEN AsBytes(<<48, 120, 48>>)
    ELSE AsBytes(<<48, 120>>)
         \o HexChars(HexLoop(value, [i \in 1..HexDigits |-> 0], 0), 0)

\* the arguments of send_hex: 0, 0xA0, 0x3039, 0x100000000 and u64::MAX
HexValues ==
    {U64Zero, U64(<<10, 0>>), U64(<<3, 0, 3, 9>>),
     U64(<<1, 0, 0, 0, 0, 0, 0, 0, 0>>), [i \in 1..HexDigits |-> 15]}

\* the words the data register reads as, in the order a call reads them:
\* the received byte, and flag bits above it
RxStream == <<322, 65>>

\* the wait loop without its bound
WaitCond_unbounded(count, timeout, ready_at) == count < ready_at

\* the condition of the wait loop of uart1/interface.rs uart1_receive_data,
\* when the first `ready_at` reads of DATAREADY are 0 and the next is 1
WaitCond(count, timeout, ready_at) ==
    count < ready_at /\ (timeout = 0 \/ count < timeout)

\* the count the loop ends with: it is incremented from 0 for as long as the
\* condition holds, so it ends at the first count at which it fails
WaitLoop(timeout, ready_at) ==
    CHOOSE count \in 0..ready_at :
        /\ ~WaitCond(count, timeout, ready_at)
        /\ (count = 0 \/ WaitCond(count - 1, timeout, ready_at))

\* the receive that reads the data register before it tests the counter
uart1_receive_data_reads_first(timeout, ready_at) ==
    LET count == WaitLoop(timeout, ready_at)
    IN  IF timeout # 0 /\ count >= timeout
        THEN [ok |-> FALSE, res |-> "Timeout", count |-> count, reads |-> 1]
        ELSE [ok |-> TRUE, res |-> "Ok", count |-> count, reads |-> 1]

\* uart1/interface.rs uart1_receive_data(timeout), after the loop: the
\* result, and how many times it reads the data register
uart1_receive_data(timeout, ready_at) ==
    LET count == WaitLoop(timeout, ready_at)
    IN  IF timeout # 0 /\ count >= timeout
        THEN [ok |-> FALSE, res |-> "Timeout", count |-> count, reads |-> 0]
        ELSE [ok |-> TRUE, res |-> "Ok", count |-> count, reads |-> 1]

\* the iteration budget Uart1::try_receive_data passes
TIMEOUT == 1000
\* how many reads of DATAREADY the hardware answers 0 before it answers 1
Delays == {0, 1, TIMEOUT - 1, TIMEOUT, TIMEOUT + 1}

Counted(n) == IF n > MaxPolls THEN MaxPolls ELSE n

----------------------------------------------------------------------------
(* Transfers: the calls *)

\* the call starts: it returns at once or enters its polling loop
Start(op, h, g, todo, want) ==
    /\ call' = IF g.enter /\ (todo # <<>> \/ want > 0)
               THEN [op |-> op, h |-> h, todo |-> todo, want |-> want]
               ELSE Idle
    /\ lastOp' = [OpLog(op, h,
                        IF g.enter /\ (todo # <<>> \/ want > 0)
                        THEN "pending" ELSE g.res, <<>>)
                    EXCEPT !.data = todo,
                           !.len = IF op \in {"receive_data", "try_receive_data"}
                                   THEN want ELSE Len(todo)]
    /\ UNCHANGED <<variant, alive, initialized, usedPins, lessee, reg,
                   handler, irqActive>>

Uart0SendData(h, data) ==
    /\ variant = "Uart0" /\ call = Idle /\ alive[h]
    /\ Start("send_data", h, Uart0_send_data(initialized[h]), data, 0)

Uart0ReceiveData(h, len) ==
    /\ variant = "Uart0" /\ call = Idle /\ alive[h]
    /\ Start("receive_data", h, Uart0_receive_data(initialized[h], len), <<>>, len)

Uart1SendChar(h, c) ==
    /\ variant = "Uart1" /\ call = Idle /\ alive[h]
    /\ Start("send_char", h, Uart1_send_char(initialized[h]), <<CharAsU8(c)>>, 0)

Uart1SendString(h, s) ==
    /\ variant = "Uart1" /\ call = Idle /\ alive[h]
    /\ Start("send_string", h, Uart1_send_string(initialized[h]), AsBytes(s), 0)

Uart1SendData(h, d) ==
    /\ variant = "Uart1" /\ call = Idle /\ alive[h]
    /\ Start("send_data", h, Uart1_send_data(initialized[h]), d, 0)

Uart1SendHex(h, value) ==
    /\ variant = "Uart1" /\ call = Idle /\ alive[h]
    /\ call' = IF Uart1_send_hex(initialized[h]).enter
               THEN [op |-> "send_hex", h |-> h, todo |-> send_hex(value),
                     want |-> 0]
               ELSE Idle
    /\ lastOp' = [OpLog("send_hex", h,
                        IF Uart1_send_hex(initialized[h]).enter
                        THEN "pending" ELSE "none", <<>>)
                    EXCEPT !.value = value,
                           !.data = send_hex(value),
                           !.len = Len(send_hex(value))]
    /\ UNCHANGED <<variant, alive, initialized, usedPins, lessee, reg,
                   handler, irqActive>>

Uart1TryReceiveData(h, len) ==
    /\ variant = "Uart1" /\ call = Idle /\ alive[h]
    /\ Start("try_receive_data", h,
             Uart1_try_receive_data(initialized[h], len), <<>>, len)

Uart1ReceiveData(h, len) ==
    /\ variant = "Uart1" /\ call = Idle /\ alive[h]
    /\ Start("receive_data", h, Uart1_receive_data(initialized[h], len), <<>>, len)

SendOps == {"send_data", "send_char", "send_string", "send_hex"}
DataReg == IF variant = "Uart0" THEN "UART0_DR" ELSE "AUX_MU_IO_REG"

\* send_byte that writes whatever the status field reads
send_byte_unconditional(txff) == "write"

\* uart0/interface.rs send_byte, after one read of UART0_FR::TXFF: the loop
\* sleeps and reads again, or the byte is written to UART0_DR
send_byte(txff) == IF txff = 1 THEN "sleep" ELSE "write"

\* uart1_send_data that writes whatever the status field reads
uart1_send_data_unconditional(transempty) == "write"

\* uart1/interface.rs uart1_send_data, after one read of
\* AUX_MU_LSR_REG::TRANSEMPTY
uart1_send_data(transempty) == IF transempty = 0 THEN "sleep" ELSE "write"

\* receive_byte that reads the data register whatever the status field reads
receive_byte_unconditional(rxfe) == "read"

\* uart0/interface.rs receive_byte, after one read of UART0_FR::RXFE
receive_byte(rxfe) == IF rxfe = 1 THEN "sleep" ELSE "read"

\* the data word unmasked
WholeWord(word) == word

\* `(DR & 0xFF) as u8` of the word the data register reads as
LowByte(word) == word % 256

\* the loop over the buffer that reports the bytes read so far on a timeout
ReceiveLoop_short_count(r, want, len) ==
    IF ~r.ok THEN [more |-> FALSE, res |-> "Ok", count |-> len - want]
    ELSE IF want = 1 THEN [more |-> FALSE, res |-> "Ok", count |-> len]
    ELSE [more |-> TRUE, res |-> "pending", count |-> -1]

\* `for data in &mut *buffer { *data = uart1_receive_data(..)?; }
\* Ok(buffer.len())` of Uart1::try_receive_data, Uart1::receive_data and
\* Uart0::receive_data, after the single-byte receive returned r with `want`
\* bytes of the `len` still to fill: the `?` returns the error, the loop
\* goes on, or the call returns Ok(buffer.len())
ReceiveLoop(r, want, len) ==
    IF ~r.ok THEN [more |-> FALSE, res |-> r.res, count |-> -1]
    ELSE IF want = 1 THEN [more |-> FALSE, res |-> "Ok", count |-> len]
    ELSE [more |-> TRUE, res |-> "pending", count |-> -1]

\* one read of the transmitter's status field by the send loop, returning
\* bit: the loop sleeps and reads again, or the byte is written
SendStep(bit) ==
    /\ call.op \in SendOps
    /\ LET does == IF variant = "Uart0" THEN send_byte(bit)
                                        ELSE uart1_send_data(bit)
           rest == Tail(call.todo)
       IN  IF does = "write"
           THEN /\ call' = IF rest = <<>> THEN Idle ELSE [call EXCEPT !.todo = rest]
                /\ lastOp' = [lastOp EXCEPT
                     !.polls = Counted(@ + 1),
                     !.seen = bit,
                     !.writes = Append(@, <<DataReg, Head(call.todo)>>),
                     !.res = IF rest = <<>>
                             THEN (IF variant = "Uart0" THEN "Ok" ELSE "none")
                             ELSE @]
           ELSE /\ call' = call
                /\ lastOp' = [lastOp EXCEPT !.polls = Counted(@ + 1),
                                            !.seen = bit]
    /\ UNCHANGED <<variant, alive, initialized, usedPins, lessee, reg,
                   handler, irqActive>>

SendPoll == \E bit \in 0..1 : SendStep(bit)

\* the value of the status field that lets the loop proceed
TxReady == IF variant = "Uart0" THEN 0 ELSE 1
RxReady == IF variant = "Uart0" THEN 0 ELSE 1

\* one read of the receiver's status field (RXFE, DATAREADY) by the blocking
\* receive, returning bit: the loop sleeps and reads again, or the data
\* register is read and its low byte stored in the buffer. Uart1 runs
\* uart1_receive_data(0): its loop goes on while the wait condition holds
ReceiveStep(bit) ==
    /\ call.op = "receive_data"
    /\ LET does == IF variant = "Uart0" THEN receive_byte(bit)
                   ELSE IF WaitCond(0, 0, 1 - bit) THEN "sleep" ELSE "read"
           word == RxStream[Len(lastOp.got) + 1]
           l == ReceiveLoop([ok |-> TRUE, res |-> "Ok"], call.want, lastOp.len)
       IN  IF does = "read"
           THEN /\ call' = IF l.more THEN [call EXCEPT !.want = @ - 1] ELSE Idle
                /\ lastOp' = [lastOp EXCEPT
                     !.polls = Counted(@ + 1),
                     !.seen = bit,
                     !.got = Append(@, LowByte(word)),
                     !.res = l.res,
                     !.count = l.count]
           ELSE /\ call' = call
                /\ lastOp' = [lastOp EXCEPT !.polls = Counted(@ + 1),
                                            !.seen = bit]
    /\ UNCHANGED <<variant, alive, initialized, usedPins, lessee, reg,
                   handler, irqActive>>

ReceivePoll == \E bit \in 0..1 : ReceiveStep(bit)

\* uart1_receive_data(1000) for the next byte of Uart1::try_receive_data,
\* when the hardware sets DATAREADY after ready_at reads: on a timeout the
\* data register is not read and the bytes read before stay in the buffer
TryReceiveByte ==
    /\ call.op = "try_receive_data"
    /\ \E ready_at \in Delays :
         LET r == uart1_receive_data(TIMEOUT, ready_at)
             word == RxStream[lastOp.reads + 1]
             l == ReceiveLoop(r, call.want, lastOp.len)
         IN  /\ call' = IF l.more THEN [call EXCEPT !.want = @ - 1] ELSE Idle
             /\ lastOp' = [lastOp EXCEPT
                  !.polls = Counted(@ + r.count + 1),
                  !.waits = r.count,
                  !.seen = IF ready_at <= r.count THEN 1 ELSE 0,
                  !.got = IF r.ok THEN Append(@, LowByte(word)) ELSE @,
                  !.reads = @ + r.reads,
                  !.res = l.res,
                  !.count = l.count]
    /\ UNCHANGED <<variant, alive, initialized, usedPins, lessee, reg,
                   handler, irqActive>>

----------------------------------------------------------------------------
(* Interrupts: the API calls *)

InterruptTypes == {"Receive", "Transmit", "RecieveTransmit"}
\* what uart1_get_interrupt_status reads: IRQPENDING | IRQID_FIFOCLR << 1
IrqStatuses == {1, 2, 4}

\* enabling the sources without the RCV_IRQ field
uart1_enable_interrupts_no_mask(i_type) ==
    IF i_type = "Receive"
    THEN << RegWrite("AUX_MU_IER_REG", << <<RX_ENABLE, 1>> >>) >>
    ELSE IF i_type = "Transmit"
    THEN << RegWrite("AUX_MU_IER_REG", << <<TX_ENABLE, 1>> >>) >>
    ELSE << RegWrite("AUX_MU_IER_REG", << <<RX_ENABLE, 1>>, <<TX_ENABLE, 1>> >>) >>

\* uart1/interface.rs uart1_enable_interrupts
uart1_enable_interrupts(i_type) ==
    IF i_type = "Receive"
    THEN << RegWrite("AUX_MU_IER_REG", << <<RCV_IRQ, 3>>, <<RX_ENABLE, 1>> >>) >>
    ELSE IF i_type = "Transmit"
    THEN << RegWrite("AUX_MU_IER_REG", << <<RCV_IRQ, 3>>, <<TX_ENABLE, 1>> >>) >>
    ELSE << RegWrite("AUX_MU_IER_REG",
                     << <<RCV_IRQ, 3>>, <<RX_ENABLE, 1>>, <<TX_ENABLE, 1>> >>) >>

\* disabling by a store of 0 to the whole register for every direction
uart1_disable_interrupts_store(i_type) == << RegSet("AUX_MU_IER_REG", 0) >>

\* uart1/interface.rs uart1_disable_interrupts
uart1_disable_interrupts(i_type) ==
    IF i_type = "Receive"
    THEN << RegWrite("AUX_MU_IER_REG", << <<RX_ENABLE, 0>> >>) >>
    ELSE IF i_type = "Transmit"
    THEN << RegWrite("AUX_MU_IER_REG", << <<TX_ENABLE, 0>> >>) >>
    ELSE << RegSet("AUX_MU_IER_REG", 0) >>

\* Uart1::enable_interrupts, Uart1::disable_interrupts: the register accesses
Uart1_enable_interrupts(inited, i_type) ==
    IF inited THEN uart1_enable_interrupts(i_type) ELSE <<>>
Uart1_disable_interrupts(inited, i_type) ==
    IF inited THEN uart1_disable_interrupts(i_type) ELSE <<>>

\* Uart1::get_interrupt_status: what it returns when the hardware reads hw
Uart1_get_interrupt_status(inited, hw) == IF inited THEN hw ELSE 0

\* Uart0::register_irq_handler: set_irq_handler, then activate(Pl011)
Uart0_register_irq_handler(inited, cb) ==
    [slots |-> {<<"UART0_INTERRUPT_CB", cb>>}, activate |-> {"Pl011"}]

\* Uart1::register_interrupt_handler: the match on irq_type
Uart1_register_interrupt_handler(inited, irq_type, cb) ==
    IF irq_type = "Receive"
    THEN [slots |-> {<<"RCV_HANDLER", cb>>}, activate |-> {"Aux"},
          writes |-> Uart1_enable_interrupts(inited, irq_type)]
    ELSE [slots |-> {}, activate |-> {}, writes |-> <<>>]

\* the slots after Option::replace on each of the written ones
Replaced(sw) ==
    [s \in Slots |-> IF \E w \in sw : w[1] = s
                     THEN (CHOOSE w \in sw : w[1] = s)[2] ELSE handler[s]]

Uart0RegisterIrqHandler(h, cb) ==
    /\ variant = "Uart0" /\ call = Idle /\ alive[h]
    /\ LET r == Uart0_register_irq_handler(initialized[h], cb)
       IN  /\ handler' = Replaced(r.slots)
           /\ irqActive' = irqActive \cup r.activate
           /\ lastOp' = [OpLog("register_irq_handler", h, "none", <<>>)
                           EXCEPT !.slotWrites = {w[1] : w \in r.slots},
                                  !.activated = r.activate,
                                  !.cb = cb,
                                  !.preReg = reg, !.preHandler = handler,
                                  !.preIrq = irqActive]
    /\ UNCHANGED <<variant, alive, initialized, usedPins, lessee, reg, call>>

Uart1RegisterInterruptHandler(h, irq_type, cb) ==
    /\ variant = "Uart1" /\ call = Idle /\ alive[h]
    /\ LET r == Uart1_register_interrupt_handler(initialized[h], irq_type, cb)
       IN  /\ handler' = Replaced(r.slots)
           /\ irqActive' = irqActive \cup r.activate
           /\ reg' = ApplyWrites(reg, r.writes)
           /\ lastOp' = [OpLog("register_interrupt_handler", h, "none",
                               WriteLog(reg, r.writes))
                           EXCEPT !.slotWrites = {w[1] : w \in r.slots},
                                  !.activated = r.activate,
                                  !.irq_type = irq_type, !.cb = cb,
                                  !.preReg = reg, !.preHandler = handler,
                                  !.preIrq = irqActive]
    /\ UNCHANGED <<variant, alive, initialized, usedPins, lessee, call>>

Uart1EnableInterrupts(h, i_type) ==
    /\ variant = "Uart1" /\ call = Idle /\ alive[h]
    /\ LET w == Uart1_enable_interrupts(initialized[h], i_type)
       IN  /\ reg' = ApplyWrites(reg, w)
           /\ lastOp' = [OpLog("enable_interrupts", h, "none", WriteLog(reg, w))
                           EXCEPT !.irq_type = i_type, !.preReg = reg]
    /\ UNCHANGED <<variant, alive, initialized, usedPins, lessee, handler,
                   irqActive, call>>

Uart1DisableInterrupts(h, i_type) ==
    /\ variant = "Uart1" /\ call = Idle /\ alive[h]
    /\ LET w == Uart1_disable_interrupts(initialized[h], i_type)
       IN  /\ reg' = ApplyWrites(reg, w)
           /\ lastOp' = [OpLog("disable_interrupts", h, "none", WriteLog(reg, w))
                           EXCEPT !.irq_type = i_type, !.preReg = reg]
    /\ UNCHANGED <<variant, alive, initialized, usedPins, lessee, handler,
                   irqActive, call>>

Uart1GetInterruptStatus(h) ==
    /\ variant = "Uart1" /\ call = Idle /\ alive[h]
    /\ \E hw \in IrqStatuses :
         lastOp' = [OpLog("get_interrupt_status", h, "none", <<>>)
                      EXCEPT !.status = Uart1_get_interrupt_status(initialized[h], hw)]
    /\ UNCHANGED <<variant, alive, initialized, usedPins, lessee, reg, handler,
                   irqActive, call>>

----------------------------------------------------------------------------
(* Interrupts: the handlers *)

\* irq_status & mask, for the 3-bit status and a 3-bit mask
BitAnd3(x, m) ==
    LET bit(v, i) == (v \div (2 ^ i)) % 2
    IN  bit(x, 0) * bit(m, 0) + 2 * bit(x, 1) * bit(m, 1)
          + 4 * bit(x, 2) * bit(m, 2)

\* the handler with the slots of the two directions exchanged
uart_handler_exchanged(irq_status) ==
    IF BitAnd3(irq_status, 3) = 2 THEN "RCV_HANDLER"
    ELSE IF BitAnd3(irq_status, 5) = 4 THEN "TRN_HANDLER"
    ELSE "none"

\* uart1/mod.rs uart_handler: the slot it takes for the status it read
uart_handler(irq_status) ==
    IF BitAnd3(irq_status, 3) = 2 THEN "TRN_HANDLER"
    ELSE IF BitAnd3(irq_status, 5) = 4 THEN "RCV_HANDLER"
    ELSE "none"

\* the statuses the handler can read when the Aux line fires: transmit
\* holding register empty (0b010) when TX_ENABLE is set, receiver holds a
\* valid byte (0b100) when RX_ENABLE is set, and nothing pending (0b001)
\* when another device of the shared Aux line raised it
Uart1Raised ==
    {st \in {1, 2, 4} :
        \/ st = 1
        \/ st = 2 /\ FieldGet(reg["AUX_MU_IER_REG"], TX_ENABLE) = 1
        \/ st = 4 /\ FieldGet(reg["AUX_MU_IER_REG"], RX_ENABLE) = 1}

\* #[IrqHandler(Aux, Uart1)] uart_handler, dispatched by the interrupt
\* manager while the Aux line is active: Option::take empties the slot and
\* the callback, an FnOnce, is called
Uart1Handler ==
    /\ variant = "Uart1" /\ call = Idle
    /\ "Aux" \in irqActive
    /\ \E st \in Uart1Raised :
         LET slot == uart_handler(st)
             cb == IF slot = "none" THEN 0 ELSE handler[slot]
         IN  /\ handler' = IF slot = "none" THEN handler
                           ELSE [handler EXCEPT ![slot] = 0]
             /\ lastOp' = [Boot EXCEPT
                  !.op = "uart_handler", !.status = st,
                  !.prePins = usedPins, !.preReg = reg,
                  !.preHandler = handler, !.preIrq = irqActive,
                  !.invoked = IF cb = 0 THEN <<>> ELSE <<cb>>]
    /\ UNCHANGED <<variant, alive, initialized, usedPins, lessee, reg,
                   irqActive, call>>

\* Option::replace on each of the written slots of sw, in the slots sl
ReplacedIn(sl, sw) ==
    [s \in Slots |-> IF \E w \in sw : w[1] = s
                     THEN (CHOOSE w \in sw : w[1] = s)[2] ELSE sl[s]]

\* uart1/mod.rs uart_handler, step by step: take() empties the slot of the
\* status, then the callback that was in it runs; sw are the slots the
\* callback writes by a registration of its own
uart_handler_run(sl, irq_status, sw) ==
    LET slot == uart_handler(irq_status)
        function == IF slot = "none" THEN 0 ELSE sl[slot]
        taken == IF slot = "none" THEN sl ELSE [sl EXCEPT ![slot] = 0]
    IN  [slots |-> IF function = 0 THEN taken ELSE ReplacedIn(taken, sw),
         invoked |-> IF function = 0 THEN <<>> ELSE <<function>>]

\* #[IrqHandler(Aux, Uart1)] uart_handler whose callback calls
\* register_interrupt_handler(irq_type, cb) on the handle h
Uart1HandlerRegistering(h, irq_type, cb) ==
    /\ variant = "Uart1" /\ call = Idle /\ alive[h]
    /\ "Aux" \in irqActive
    /\ \E st \in Uart1Raised :
         LET r == Uart1_register_interrupt_handler(initialized[h], irq_type, cb)
             run == uart_handler_run(handler, st, r.slots)
         IN  /\ run.invoked # <<>>
             /\ handler' = run.slots
             /\ irqActive' = irqActive \cup r.activate
             /\ reg' = ApplyWrites(reg, r.writes)
             /\ lastOp' = [Boot EXCEPT
                  !.op = "uart_handler", !.h = h, !.status = st,
                  !.writes = WriteLog(reg, r.writes),
                  !.wasInit = initialized[h],
                  !.prePins = usedPins, !.preReg = reg,
                  !.preHandler = handler, !.preIrq = irqActive,
                  !.invoked = run.invoked,
                  !.irq_type = irq_type, !.cb = cb,
                  !.slotWrites = {w[1] : w \in r.slots}]
    /\ UNCHANGED <<variant, alive, initialized, usedPins, lessee, call>>

\* the masked interrupt states the Pl011 raises its interrupt with: the
\* sources that are set in UART0_IMSC
Uart0Raised ==
    {st \in {2 ^ INT_RX.off, 2 ^ INT_OE.off} :
        \/ st = 2 ^ INT_RX.off /\ FieldGet(reg["UART0_IMSC"], INT_RX) = 1
        \/ st = 2 ^ INT_OE.off /\ FieldGet(reg["UART0_IMSC"], INT_OE) = 1}

\* the handler that clears every interrupt source
uart0_handler_clear_all(state, slot) ==
    [writes |-> << RegSet("UART0_ICR", 2047) >>,
     invoked |-> IF slot = 0 THEN <<>> ELSE <<slot>>,
     events |-> << <<"get", "UART0_MIS">>, <<"set", "UART0_ICR">> >>
                \o (IF slot = 0 THEN <<>> ELSE << <<"call", "UART0_INTERRUPT_CB">> >>)]

\* uart0/interface.rs uart0_handler: the register accesses for the masked
\* state it read, the callback it calls (an FnMut, left in the slot), and
\* the order of its steps
uart0_handler(state, slot) ==
    [writes |-> << RegSet("UART0_ICR", state) >>,
     invoked |-> IF slot = 0 THEN <<>> ELSE <<slot>>,
     events |-> << <<"get", "UART0_MIS">>, <<"set", "UART0_ICR">> >>
                \o (IF slot = 0 THEN <<>> ELSE << <<"call", "UART0_INTERRUPT_CB">> >>)]

\* #[IrqHandler(Pl011)] uart0_handler, dispatched while the Pl011 line is
\* active
Uart0Handler ==
    /\ variant = "Uart0" /\ call = Idle
    /\ "Pl011" \in irqActive
    /\ \E st \in Uart0Raised :
         LET r == uart0_handler(st, handler["UART0_INTERRUPT_CB"])
         IN  lastOp' = [Boot EXCEPT
                  !.op = "uart0_handler", !.status = st,
                  !.writes = WriteLog(reg, r.writes),
                  !.prePins = usedPins, !.preReg = reg,
                  !.preHandler = handler, !.preIrq = irqActive,
                  !.invoked = r.invoked, !.events = r.events]
    /\ UNCHANGED <<variant, alive, initialized, usedPins, lessee, reg,
                   handler, irqActive, call>>

----------------------------------------------------------------------------
(* The specifications *)

Lifecycle(rates) ==
    \/ \E h \in Handles : New(h)
    \/ \E h \in Handles, r \in rates : Uart0Initialize(h, r[1], r[2])
    \/ \E h \in Handles, r \in rates : Uart1Initialize(h, r[1], r[2])
    \/ \E h \in Handles : Drop(h)

OtherClients ==
    \/ \E p \in PinsOf(variant) : OtherGetPin(p)
    \/ \E p \in PinsOf(variant) : OtherFreePin(p)

Transfers ==
    \/ \E h \in Handles, d \in Buffers : Uart0SendData(h, d)
    \/ \E h \in Handles, n \in Lengths : Uart0ReceiveData(h, n)
    \/ \E h \in Handles, c \in Chars : Uart1SendChar(h, c)
    \/ \E h \in Handles, s \in Strings : Uart1SendString(h, s)
    \/ \E h \in Handles, d \in Buffers : Uart1SendData(h, d)
    \/ \E h \in Handles, n \in Lengths : Uart1TryReceiveData(h, n)
    \/ \E h \in Handles, n \in Lengths : Uart1ReceiveData(h, n)
    \/ SendPoll
    \/ ReceivePoll
    \/ TryReceiveByte

Interrupts(cbs) ==
    \/ \E h \in Handles, cb \in cbs : Uart0RegisterIrqHandler(h, cb)
    \/ \E h \in Handles, t \in InterruptTypes, cb \in cbs :
         Uart1RegisterInterruptHandler(h, t, cb)
    \/ \E h \in Handles, t \in InterruptTypes : Uart1EnableInterrupts(h, t)
    \/ \E h \in Handles, t \in InterruptTypes : Uart1DisableInterrupts(h, t)
    \/ \E h \in Handles : Uart1GetInterruptStatus(h)

\* the drivers' API, the GPIO singleton used by the drivers alone
Next == Lifecycle({DocRate}) \/ Transfers \/ Interrupts(Callbacks)

Spec == Init /\ [][Next]_vars

\* the lifecycle of the handles and the pin leases, with other clients of
\* the GPIO singleton
NextLife == Lifecycle(Rates) \/ OtherClients

SpecLife == Init /\ [][NextLife]_vars

\* the lifecycle of the handles and the transfers
NextIo == Lifecycle({DocRate}) \/ Transfers

SpecIo == Init /\ [][NextIo]_vars

\* the lifecycle of the handles and send_hex
NextHex ==
    \/ Lifecycle({DocRate})
    \/ \E h \in Handles, v \in HexValues : Uart1SendHex(h, v)
    \/ SendPoll

SpecHex == Init /\ [][NextHex]_vars

\* the same with a peripheral that does not stall for ever: a send loop that
\* keeps reading the status field eventually reads that the transmitter has
\* space, a blocking receive loop eventually reads that data is available,
\* and the bounded single-byte receive, a loop of at most TIMEOUT iterations,
\* runs to its end
SpecFair ==
    /\ Init /\ [][NextIo]_vars
    /\ WF_vars(SendStep(TxReady))
    /\ WF_vars(ReceiveStep(RxReady))
    /\ WF_vars(TryReceiveByte)

\* the interrupt API and the interrupt handlers, on handles that are created
\* and initialized with the rates of the documentation
Handlers == Uart0Handler \/ Uart1Handler

\* the callbacks of an application that re-registers: one more
IrqCallbacks == 1..(MaxCb + 1)

NextIrq == Lifecycle({DocRate}) \/ Interrupts(IrqCallbacks) \/ Handlers

SpecIrq == Init /\ [][NextIrq]_vars

\* the same with callbacks that register a callback while they run
NextNest ==
    \/ NextIrq
    \/ \E h \in Handles, t \in InterruptTypes, cb \in IrqCallbacks :
         Uart1HandlerRegistering(h, t, cb)

SpecNest == Init /\ [][NextNest]_vars

\* the lifecycle of the handles on a system whose registers were left in
\* some state by whoever ran before the driver: other AUX devices enabled,
\* other line-control and FIFO-level bits set
BootRegs ==
    {[ResetRegs EXCEPT !["AUX_ENABLES"] = e, !["AUX_MU_LCR_REG"] = l,
                       !["UART0_LCRH"] = l, !["UART0_IFLS"] = f] :
        e \in {0, 2, 4, 6}, l \in {0, 64, 130}, f \in {0, 5}}

InitReg ==
    /\ variant \in Variants
    /\ alive = [h \in Handles |-> FALSE]
    /\ initialized = [h \in Handles |-> FALSE]
    /\ usedPins = {}
    /\ lessee = [p \in Pins |-> NoOne]
    /\ reg \in BootRegs
    /\ handler = [s \in Slots |-> 0]
    /\ irqActive = {}
    /\ call = Idle
    /\ lastOp = Boot

SpecReg == InitReg /\ [][Lifecycle({DocRate})]_vars

\* the divisor arithmetic over many rates: an application that creates one
\* handle, initializes it once with a pair of DivRates and drops it
DivClocks == (0..200) \cup {3000000, 3672000, 48000000, 250000000}
DivBauds == (1..12) \cup {9600, 115200}
DivRates == DivClocks \X DivBauds

NextDiv ==
    \/ lastOp.op = "boot" /\ New(1)
    \/ lastOp.op = "new" /\ \E r \in DivRates : Uart0Initialize(1, r[1], r[2])
    \/ lastOp.op = "new" /\ \E r \in DivRates : Uart1Initialize(1, r[1], r[2])
    \/ Drop(1)

SpecDiv == Init /\ [][NextDiv]_vars

----------------------------------------------------------------------------
(* Properties *)

TransferOps == {"send_data", "receive_data", "send_char", "send_string",
                "try_receive_data"}
InterruptOps == {"enable_interrupts", "disable_interrupts",
                 "get_interrupt_status", "register_irq_handler",
                 "register_interrupt_handler"}
ReceiveOps == {"receive_data", "try_receive_data"}
ErrorResults == {"InitializationFailed", "UartNotInitialized",
                 "ReceiveBufferEmpty", "GPIO error", "Uart not initialized",
                 "buffer size expected to be at least 1", "Timeout"}

\* C1: a transfer call on a handle whose flag was never set returns at once:
\* Uart0 send_data and receive_data return UartNotInitialized, Uart1
\* try_receive_data and receive_data return an error, Uart1 send_char,
\* send_string and send_data return nothing; the call is not in a polling
\* loop, has read no status field and has neither written nor read the data
\* register
C1_UninitializedTransferFails ==
    (lastOp.op \in TransferOps /\ ~lastOp.wasInit) =>
        /\ call = Idle
        /\ lastOp.polls = 0
        /\ lastOp.writes = <<>>
        /\ lastOp.got = <<>>
        /\ variant = "Uart0" => lastOp.res = "UartNotInitialized"
        /\ (variant = "Uart1" /\ lastOp.op \in ReceiveOps) =>
               lastOp.res \in ErrorResults
        /\ (variant = "Uart1" /\ lastOp.op \in SendOps) => lastOp.res = "none"

\* a receive was refused on a handle that was never initialized while the
\* peripheral is in use by another handle
C1_Witness ==
    /\ lastOp.op = "receive_data" /\ ~lastOp.wasInit
    /\ lastOp.res \in ErrorResults
    /\ \E h \in Handles : initialized[h]

\* C2: a send, receive or interrupt call on a handle whose flag is not set
\* writes no peripheral register, installs no callback in a callback slot and
\* activates no interrupt line at the interrupt manager
C2_UninitializedCallsHaveNoEffect ==
    (lastOp.op \in TransferOps \cup InterruptOps /\ ~lastOp.wasInit) =>
        /\ lastOp.writes = <<>>
        /\ lastOp.slotWrites = {}
        /\ lastOp.activated = {}

\* C3: when a lease that initialize requests fails (a GPIO pin of the
\* peripheral is in use, or the HAL lease of Uart1::initialize fails),
\* initialize returns an error (InitializationFailed for Uart0), writes no
\* peripheral register and does not set the handle's flag
C3_LeaseFailureFailsInitialize ==
    (/\ lastOp.op = "initialize"
     /\ \/ lastOp.hal = "failed"
        \/ PinsOf(variant) \cap lastOp.prePins # {}) =>
        /\ lastOp.res \in ErrorResults
        /\ variant = "Uart0" => lastOp.res = "InitializationFailed"
        /\ lastOp.writes = <<>>
        /\ initialized[lastOp.h] = lastOp.wasInit

\* C4: a handle whose flag is set holds the lease of both of its pins: they
\* are in use and it is the handle that acquired them
C4_ReadyHandleHoldsPins ==
    \A h \in Handles :
        (alive[h] /\ initialized[h]) =>
            \A p \in PinsOf(variant) : p \in usedPins /\ lessee[p] = Holder(h)

C6_FailedInitializeLeavesNothing ==
    (lastOp.op = "initialize" /\ lastOp.res \in ErrorResults) =>
        /\ usedPins = lastOp.prePins
        /\ lastOp.writes = <<>>

\* C7: an initialize that comes right after a successful initialize of the
\* same handle with the same rates leaves the flag set and the registers as
\* the first call left them
C7_InitializeTwice ==
    lastOp.again => (initialized[lastOp.h] /\ reg = lastOp.preReg)

\* initialize was called twice in succession on a handle
C7_Witness ==
    lastOp.op = "initialize" /\ lastOp.again /\ lastOp.wasInit

\* C8: the flag of a handle that stays alive is never cleared
C8_ReadyStaysReady ==
    [][\A h \in Handles :
          (alive[h] /\ initialized[h] /\ alive'[h]) => initialized'[h]]_vars

\* a later initialize of a Ready handle returned an error and the handle is
\* still Ready
C8_Witness ==
    /\ lastOp.op = "initialize" /\ lastOp.wasInit
    /\ lastOp.res \in ErrorResults
    /\ initialized[lastOp.h]

\* the rate re-derived from the divisor in the baud register
Rederived(clock_rate) == clock_rate \div (8 * (reg["AUX_MU_BAUD_REG"] + 1))

\* a successful Uart1 initialize with clock_rate >= 8 * baud_rate
Uart1Configured ==
    /\ variant = "Uart1"
    /\ lastOp.op = "initialize" /\ lastOp.res = "Ok"
    /\ lastOp.baud > 0 /\ lastOp.clock >= 8 * lastOp.baud

\* C9: the Uart1 divisor in the baud register is not negative and
\* the re-derived rate differs from baud_rate by at most one
C9_RederivedWithinOne ==
    Uart1Configured =>
        /\ reg["AUX_MU_BAUD_REG"] >= 0
        /\ Rederived(lastOp.clock) - lastOp.baud \in -1..1

\* C9, with the exact error bound: the Uart1 divisor in the baud register is
\* clock_rate / (8 * baud_rate) - 1 and not negative; the re-derived rate is
\* never below baud_rate, exceeds it by less than baud_rate / (divisor + 1),
\* and equals it when clock_rate is a multiple of 8 * baud_rate
C9_RederivedNotBelow ==
    Uart1Configured =>
        /\ reg["AUX_MU_BAUD_REG"] >= 0
        /\ (reg["AUX_MU_BAUD_REG"] + 1) * 8 * lastOp.baud <= lastOp.clock
        /\ Rederived(lastOp.clock) >= lastOp.baud
        /\ (Rederived(lastOp.clock) - lastOp.baud) * (reg["AUX_MU_BAUD_REG"] + 1)
               < lastOp.baud
        /\ lastOp.clock % (8 * lastOp.baud) = 0 =>
               Rederived(lastOp.clock) = lastOp.baud

\* the documented rates: the divisor is 270 and the re-derived rate is 113
\* above 115200
C9_Witness ==
    /\ Uart1Configured
    /\ lastOp.clock = 250000000 /\ lastOp.baud = 115200
    /\ reg["AUX_MU_BAUD_REG"] = 270
    /\ Rederived(lastOp.clock) = 115313

\* C10: the fractional divisor that a successful Uart0 initialize writes to
\* the fractional baud register is in 0..63
C10_FracDivFitsSixBits ==
    (/\ variant = "Uart0"
     /\ lastOp.op = "initialize" /\ lastOp.res = "Ok"
     /\ lastOp.baud > 0) =>
        reg["UART0_FBRD"] \in 0..63

\* C11: an initialize with positive clock_rate and baud_rate never aborts
\* the program: the divisor arithmetic neither underflows nor overflows and
\* every failure is a returned error value
C11_InitializeNeverAborts ==
    (lastOp.op = "initialize" /\ lastOp.clock > 0 /\ lastOp.baud > 0) =>
        (call # Panicked /\ lastOp.res \in {"Ok"} \cup ErrorResults)

\* the error of a receive into an empty buffer, and of a transfer on a
\* handle whose flag is not set
EmptyBufferError ==
    IF variant = "Uart0" THEN "ReceiveBufferEmpty"
                         ELSE "buffer size expected to be at least 1"
NotInitializedError ==
    IF variant = "Uart0" THEN "UartNotInitialized" ELSE "Uart not initialized"

\* C12: a receive into a buffer of length 0 returns at once, without a read
\* of a status field or of the data register: the empty-buffer error on a
\* handle whose flag is set, the not-initialized error otherwise
C12_EmptyBufferReceive ==
    (lastOp.op \in ReceiveOps /\ lastOp.len = 0) =>
        /\ call = Idle
        /\ lastOp.polls = 0 /\ lastOp.seen = -1
        /\ lastOp.got = <<>> /\ lastOp.writes = <<>>
        /\ lastOp.res = IF lastOp.wasInit THEN EmptyBufferError
                                          ELSE NotInitializedError

\* a Ready handle refused an empty buffer
C12_Witness ==
    /\ lastOp.op \in ReceiveOps /\ lastOp.len = 0 /\ lastOp.wasInit
    /\ lastOp.res = EmptyBufferError

\* a try_receive_data on a Ready handle into a buffer of at least one byte
BoundedReceive ==
    lastOp.op = "try_receive_data" /\ lastOp.wasInit /\ lastOp.len >= 1

\* C13: the bounded receive waits at most TIMEOUT = 1000 iterations for each
\* byte; when the data-ready bit is not set within them it returns the
\* timeout error; and a started bounded receive always returns
C13_BoundedReceiveTerminates ==
    /\ [](BoundedReceive =>
            /\ lastOp.waits <= TIMEOUT
            /\ (lastOp.seen = 0 /\ lastOp.waits = TIMEOUT) =>
                   (call = Idle /\ lastOp.res = "Timeout")
            /\ lastOp.res = "Timeout" => (call = Idle /\ lastOp.waits = TIMEOUT))
    /\ (call.op = "try_receive_data") ~>
           (call = Idle /\ BoundedReceive /\ lastOp.res \in {"Ok", "Timeout"})

\* the data-ready bit stayed clear for the first byte and the call returned
\* the timeout after 1000 wait iterations
C13_Witness ==
    /\ BoundedReceive /\ call = Idle
    /\ lastOp.res = "Timeout" /\ lastOp.waits = TIMEOUT /\ lastOp.seen = 0
    /\ lastOp.got = <<>>

\* C14: a receive on a Ready handle that returns Ok(n) has n equal to the
\* length of the buffer and has read the data register exactly n times; when
\* a byte times out the call returns the error, with no count, however many
\* bytes it has read before
C14_NoShortCount ==
    (lastOp.op \in ReceiveOps /\ lastOp.wasInit /\ lastOp.len >= 1) =>
        /\ lastOp.res \in {"pending", "Ok", "Timeout"}
        /\ lastOp.res = "Ok" =>
              /\ call = Idle
              /\ lastOp.count = lastOp.len
              /\ Len(lastOp.got) = lastOp.len
        /\ lastOp.res = "Timeout" =>
              /\ call = Idle
              /\ lastOp.count = -1
              /\ Len(lastOp.got) < lastOp.len
        /\ lastOp.res = "pending" => lastOp.count = -1

\* the second byte of two timed out after the first was read
C14_Witness ==
    /\ lastOp.op = "try_receive_data" /\ lastOp.wasInit
    /\ lastOp.len = 2 /\ Len(lastOp.got) = 1
    /\ lastOp.res = "Timeout" /\ call = Idle

\* a send on a Ready handle
ReadySend == lastOp.op \in SendOps /\ lastOp.wasInit

\* C15: a send of N bytes on a Ready handle writes the data register N
\* times, with the bytes of the buffer in order; a step of the send loop
\* writes the data register only after a status read that showed space
\* (TXFF = 0, TRANSEMPTY = 1), and a status read that showed none is
\* followed by no write
C15_SendWritesInOrder ==
    /\ [](ReadySend =>
            /\ Len(lastOp.writes) <= lastOp.len
            /\ \A i \in 1..Len(lastOp.writes) :
                   lastOp.writes[i] = <<DataReg, lastOp.data[i]>>
            /\ call = Idle <=> Len(lastOp.writes) = lastOp.len)
    /\ [][call.op \in SendOps =>
            /\ lastOp'.writes # lastOp.writes => lastOp'.seen = TxReady
            /\ lastOp'.seen # TxReady => lastOp'.writes = lastOp.writes]_vars

\* both bytes of a buffer were sent
C15_Witness ==
    /\ ReadySend /\ call = Idle /\ lastOp.op = "send_data"
    /\ lastOp.writes = << <<DataReg, 65>>, <<DataReg, 66>> >>

\* a blocking receive on a Ready handle into a buffer of at least one byte
BlockingReceive ==
    lastOp.op = "receive_data" /\ lastOp.wasInit /\ lastOp.len >= 1

\* C16: a blocking receive of N >= 1 bytes on a Ready handle has returned
\* exactly when it has read the data register N times, and then with Ok(N);
\* the buffer holds the low 8 bits of the words read, in order; the data
\* register is read only after a status read that showed data, and a status
\* read that showed none leaves the call waiting; when the hardware
\* eventually shows data for each byte the call eventually returns
C16_BlockingReceive ==
    /\ [](BlockingReceive =>
            /\ Len(lastOp.got) <= lastOp.len
            /\ \A i \in 1..Len(lastOp.got) : lastOp.got[i] = RxStream[i] % 256
            /\ call = Idle <=> Len(lastOp.got) = lastOp.len
            /\ IF call = Idle
               THEN lastOp.res = "Ok" /\ lastOp.count = lastOp.len
               ELSE lastOp.res = "pending" /\ call.op = "receive_data")
    /\ [][call.op = "receive_data" =>
            /\ lastOp'.got # lastOp.got => lastOp'.seen = RxReady
            /\ lastOp'.seen # RxReady =>
                   (call' = call /\ lastOp'.got = lastOp.got)]_vars
    /\ (call.op = "receive_data") ~>
           (call = Idle /\ BlockingReceive /\ lastOp.res = "Ok")

\* two bytes were received after a status read that showed no data: the
\* words 0x142 and 0x41 arrive as 0x42 and 0x41
C16_Witness ==
    /\ BlockingReceive /\ call = Idle
    /\ lastOp.got = <<66, 65>> /\ lastOp.count = 2

\* C17: a send on a Ready handle returns only when all its bytes are
\* written, whatever the number of status reads; a status read that showed
\* no space neither ends the call nor writes the data register; when the
\* transmitter eventually shows space after each byte the send eventually
\* returns with all bytes written
C17_SendHasNoTimeout ==
    /\ [](ReadySend =>
            (Len(lastOp.writes) < lastOp.len =>
                (call.op = lastOp.op /\ lastOp.res = "pending")))
    /\ [][(call.op \in SendOps /\ lastOp'.seen # TxReady) =>
             (call' = call /\ lastOp'.writes = lastOp.writes
                           /\ lastOp'.res = "pending")]_vars
    /\ (call.op \in SendOps) ~>
           (call = Idle /\ ReadySend /\ Len(lastOp.writes) = lastOp.len)

\* the transmitter showed no space and the send waits, nothing written
C17_Witness ==
    /\ ReadySend /\ call.op \in SendOps
    /\ lastOp.seen = 1 - TxReady /\ lastOp.writes = <<>>

\* the callback slots and the interrupt enable bits of a direction
SlotsOf(t) ==
    IF t = "Receive" THEN {"RCV_HANDLER"}
    ELSE IF t = "Transmit" THEN {"TRN_HANDLER"}
    ELSE {"RCV_HANDLER", "TRN_HANDLER"}
EnablesOf(t) ==
    IF t = "Receive" THEN {RX_ENABLE}
    ELSE IF t = "Transmit" THEN {TX_ENABLE}
    ELSE {RX_ENABLE, TX_ENABLE}

\* C18: register_interrupt_handler(direction, callback) on a Ready Uart1
\* puts the callback in the slot of the direction and leaves the interrupt
\* source of the direction enabled, for each of Receive, Transmit and
\* RecieveTransmit
C18_RegisterInstallsAndEnables ==
    (lastOp.op = "register_interrupt_handler" /\ lastOp.wasInit) =>
        /\ SlotsOf(lastOp.irq_type) \subseteq lastOp.slotWrites
        /\ \A sl \in SlotsOf(lastOp.irq_type) : handler[sl] # 0
        /\ \A f \in EnablesOf(lastOp.irq_type) :
               FieldGet(reg["AUX_MU_IER_REG"], f) = 1

\* the uart_handler ran on a receive interrupt with a callback in the slot
ReceiveInterruptServed ==
    /\ lastOp.op = "uart_handler" /\ lastOp.status = 4
    /\ lastOp.preHandler["RCV_HANDLER"] # 0

\* C19: the uart_handler that serves a receive interrupt with a registered
\* callback calls that callback once, empties the slot, and acknowledges
\* the receive interrupt source: it reads the data register, writes a
\* register, or leaves RX_ENABLE clear; a uart_handler that finds the slot
\* empty calls nothing
C19_ReceiveInterruptOnce ==
    /\ ReceiveInterruptServed =>
          /\ lastOp.invoked = <<lastOp.preHandler["RCV_HANDLER"]>>
          /\ handler["RCV_HANDLER"] = 0
          /\ \/ lastOp.got # <<>>
             \/ lastOp.writes # <<>>
             \/ FieldGet(reg["AUX_MU_IER_REG"], RX_ENABLE) = 0
    /\ (/\ lastOp.op = "uart_handler" /\ lastOp.status = 4
        /\ lastOp.preHandler["RCV_HANDLER"] = 0) => lastOp.invoked = <<>>

\* the interrupt source that makes the handler read the slot can interrupt:
\* its line is active at the interrupt manager and an enable bit of the
\* direction is set in the peripheral
SourceEnabled(sl, regs, lines) ==
    IF sl = "UART0_INTERRUPT_CB"
    THEN "Pl011" \in lines /\ regs["UART0_IMSC"] # 0
    ELSE /\ "Aux" \in lines
         /\ FieldGet(regs["AUX_MU_IER_REG"],
                     IF sl = "RCV_HANDLER" THEN RX_ENABLE ELSE TX_ENABLE) = 1

\* C20: a call that writes a callback slot finds the interrupt source of
\* that slot disabled
C20_SlotWrittenWhileDisabled ==
    \A sl \in Slots :
        (/\ lastOp.op \in {"register_irq_handler", "register_interrupt_handler"}
         /\ sl \in lastOp.slotWrites) =>
            ~SourceEnabled(sl, lastOp.preReg, lastOp.preIrq)

\* the slots a registration is for: the one slot of a Uart0, the slots of
\* the direction on a Uart1
RegisteredFor ==
    IF lastOp.op = "register_irq_handler" THEN {"UART0_INTERRUPT_CB"}
    ELSE SlotsOf(lastOp.irq_type)

\* C21: a slot holds one callback: a registration on a Ready handle leaves
\* the callback it was given in every slot it is for, whatever the slot
\* held, and an interrupt handler calls at most one callback, the one its
\* slot held when the interrupt came; so a callback that was replaced is in
\* no slot and is not called
C21_LatestCallbackOnly ==
    /\ (/\ lastOp.op \in {"register_irq_handler", "register_interrupt_handler"}
        /\ lastOp.wasInit) =>
          \A sl \in RegisteredFor : handler[sl] = lastOp.cb
    /\ (lastOp.op \in {"uart0_handler", "uart_handler"}) =>
          /\ Len(lastOp.invoked) <= 1
          /\ \A i \in 1..Len(lastOp.invoked) :
                \E sl \in Slots : /\ lastOp.preHandler[sl] = lastOp.invoked[i]
                                  /\ lastOp.invoked[i] # 0

\* the writes initialize made, by the step of the initialization algorithm
\* they belong to; a write is <<register, value written>>
IsControl(w) == w[1] \in {"UART0_CR", "AUX_MU_CNTL_REG"}
IsEnable(w) ==
    \/ w[1] = "UART0_CR" /\ (FieldGet(w[2], TXE) = 1 \/ FieldGet(w[2], RXE) = 1)
    \/ /\ w[1] = "AUX_MU_CNTL_REG"
       /\ (FieldGet(w[2], TRANS_ENABLE) = 1 \/ FieldGet(w[2], RCV_ENABLE) = 1)
IsDisable(w) == IsControl(w) /\ ~IsEnable(w)
IsFifoClear(w) ==
    \/ w[1] = "AUX_MU_IIR_REG" /\ FieldGet(w[2], IRQID_FIFOCLR) # 0
    \/ w[1] = "UART0_LCRH" /\ FieldGet(w[2], FEN) = 0
IsLineFormat(w) ==
    \/ w[1] = "AUX_MU_LCR_REG"
    \/ w[1] = "UART0_LCRH" /\ FieldGet(w[2], FEN) = 1
IsBaud(w) == w[1] \in {"UART0_IBRD", "UART0_FBRD", "AUX_MU_BAUD_REG"}

\* the positions in the write sequence ws of the writes that satisfy Is
Positions(ws, Is(_)) == {i \in 1..Len(ws) : Is(ws[i])}

\* every position of a is before every position of b, and there are both
Precede(a, b) == a # {} /\ b # {} /\ \A i \in a, j \in b : i < j

\* C22: the writes of a successful initialize come in the order disable,
\* FIFO clear, line format, baud divisor, enable: each step has a write, the
\* writes of a step come before those of the next, and so no line-format,
\* FIFO or baud register is written while transmit or receive is enabled
C22_InitializeWriteOrder ==
    (lastOp.op = "initialize" /\ lastOp.writes # <<>>) =>
        LET ws == lastOp.writes
            disable == Positions(ws, IsDisable)
            fifo    == Positions(ws, IsFifoClear)
            format  == Positions(ws, IsLineFormat)
            baud    == Positions(ws, IsBaud)
            enable  == Positions(ws, IsEnable)
        IN  /\ Precede(disable, fifo)
            /\ Precede(fifo, format)
            /\ Precede(format, baud)
            /\ Precede(baud, enable)

\* C23: after a successful initialize the registers hold the configuration:
\* on Uart0 UART_EN, TXE and RXE are set, the word length is 8 bit with the
\* FIFOs enabled and the baud registers hold clock_rate / (16 * baud_rate)
\* and r / 2 + r mod 2 with r = (clock_rate mod (16 * baud_rate)) * 8 /
\* baud_rate; on Uart1 receiver and transmitter are enabled, the data size
\* is 8 bit, no interrupt-enable bit is set and the baud register holds
\* clock_rate / (8 * baud_rate) - 1
C23_ConfiguredAfterInitialize ==
    (lastOp.op = "initialize" /\ lastOp.res = "Ok") =>
        LET c == lastOp.clock
            b == lastOp.baud
            r == ((c % (16 * b)) * 8) \div b
        IN  /\ variant = "Uart0" =>
                  /\ FieldGet(reg["UART0_CR"], UART_EN) = 1
                  /\ FieldGet(reg["UART0_CR"], TXE) = 1
                  /\ FieldGet(reg["UART0_CR"], RXE) = 1
                  /\ FieldGet(reg["UART0_LCRH"], WLEN) = 3
                  /\ FieldGet(reg["UART0_LCRH"], FEN) = 1
                  /\ reg["UART0_IBRD"] = c \div (16 * b)
                  /\ reg["UART0_FBRD"] = (r \div 2) + (r % 2)
            /\ variant = "Uart1" =>
                  /\ FieldGet(reg["AUX_MU_CNTL_REG"], RCV_ENABLE) = 1
                  /\ FieldGet(reg["AUX_MU_CNTL_REG"], TRANS_ENABLE) = 1
                  /\ FieldGet(reg["AUX_MU_LCR_REG"], DATASIZE) = 3
                  /\ reg["AUX_MU_IER_REG"] = 0
                  /\ reg["AUX_MU_BAUD_REG"] = c \div (8 * b) - 1

\* a Uart0 initialized with (3_000_000, 115_200): the divisors are 1 and 40
C23_Witness ==
    /\ variant = "Uart0"
    /\ lastOp.op = "initialize" /\ lastOp.res = "Ok"
    /\ lastOp.clock = 3000000 /\ lastOp.baud = 115200
    /\ reg["UART0_IBRD"] = 1 /\ reg["UART0_FBRD"] = 40
    /\ FieldGet(reg["UART0_CR"], RXE) = 1

\* C24: an initialize that comes right after a successful initialize of the
\* same handle, whose pins are then still leased to it, is not rejected and
\* runs the register sequence again: it returns Ok and writes the control
\* register to its disabled value and later to its enabled value
C24_InitializeAgainRuns ==
    lastOp.again =>
        /\ lastOp.res = "Ok"
        /\ \E i, j \in 1..Len(lastOp.writes) :
              i < j /\ IsDisable(lastOp.writes[i]) /\ IsEnable(lastOp.writes[j])

\* the bits of a register value outside the fields fs
Outside(val, fs) ==
    LET RECURSIVE Clear(_, _)
        Clear(v, rest) ==
            IF rest = {} THEN v
            ELSE LET f == CHOOSE x \in rest : TRUE
                 IN  Clear(FieldPut(v, f, 0), rest \ {f})
    IN  Clear(val, fs)

\* C25: the field writes of initialize leave the bits outside the written
\* field as they were: on Uart1 the SPI1 and SPI2 enable bits of AUX_ENABLES
\* and the line-control bits outside DATASIZE, on Uart0 the line-control
\* bits outside WLEN and FEN and the FIFO-level bits outside RXIFSEL
C25_FieldWritesKeepOtherBits ==
    (lastOp.op = "initialize" /\ lastOp.writes # <<>>) =>
        /\ variant = "Uart1" =>
              /\ FieldGet(reg["AUX_ENABLES"], MINIUART_ENABLE) = 1
              /\ FieldGet(reg["AUX_ENABLES"], SPI1_ENABLE)
                    = FieldGet(lastOp.preReg["AUX_ENABLES"], SPI1_ENABLE)
              /\ FieldGet(reg["AUX_ENABLES"], SPI2_ENABLE)
                    = FieldGet(lastOp.preReg["AUX_ENABLES"], SPI2_ENABLE)
              /\ Outside(reg["AUX_MU_LCR_REG"], {DATASIZE})
                    = Outside(lastOp.preReg["AUX_MU_LCR_REG"], {DATASIZE})
        /\ variant = "Uart0" =>
              /\ Outside(reg["UART0_LCRH"], {WLEN, FEN})
                    = Outside(lastOp.preReg["UART0_LCRH"], {WLEN, FEN})
              /\ Outside(reg["UART0_IFLS"], {RXIFSEL})
                    = Outside(lastOp.preReg["UART0_IFLS"], {RXIFSEL})

\* a Uart1 was initialized while both SPI devices were enabled and the
\* line-control register had DLAB set: they still are
C25_Witness ==
    /\ variant = "Uart1"
    /\ lastOp.op = "initialize" /\ lastOp.res = "Ok"
    /\ lastOp.preReg["AUX_ENABLES"] = 6 /\ reg["AUX_ENABLES"] = 7
    /\ lastOp.preReg["AUX_MU_LCR_REG"] = 130 /\ reg["AUX_MU_LCR_REG"] = 131

\* the interrupt-enable bits of the Uart1
RxEnabled(regs) == FieldGet(regs["AUX_MU_IER_REG"], RX_ENABLE) = 1
TxEnabled(regs) == FieldGet(regs["AUX_MU_IER_REG"], TX_ENABLE) = 1

\* C26: enable_interrupts and disable_interrupts for Receive leave the
\* transmit interrupt-enable bit as it was, and those for Transmit leave the
\* receive interrupt-enable bit as it was, whatever calls came before
C26_SourcesIndependent ==
    (lastOp.op \in {"enable_interrupts", "disable_interrupts"}) =>
        /\ lastOp.irq_type = "Receive" => (TxEnabled(reg) <=> TxEnabled(lastOp.preReg))
        /\ lastOp.irq_type = "Transmit" => (RxEnabled(reg) <=> RxEnabled(lastOp.preReg))
        /\ (lastOp.op = "enable_interrupts" /\ lastOp.wasInit) =>
              /\ lastOp.irq_type = "Receive" => RxEnabled(reg)
              /\ lastOp.irq_type = "Transmit" => TxEnabled(reg)
        /\ (lastOp.op = "disable_interrupts" /\ lastOp.wasInit) =>
              /\ lastOp.irq_type = "Receive" => ~RxEnabled(reg)
              /\ lastOp.irq_type = "Transmit" => ~TxEnabled(reg)

\* disable_interrupts(Receive) was called with both sources enabled: the
\* transmit source still is
C26_Witness ==
    /\ lastOp.op = "disable_interrupts" /\ lastOp.irq_type = "Receive"
    /\ RxEnabled(lastOp.preReg) /\ TxEnabled(lastOp.preReg)
    /\ ~RxEnabled(reg) /\ TxEnabled(reg)

\* C27: on Uart1, whenever the receive or the transmit interrupt-enable bit
\* is set, the RCV_IRQ field of the interrupt-enable register is 0b11
C27_EnableMaskSet ==
    (variant = "Uart1" /\ (RxEnabled(reg) \/ TxEnabled(reg))) =>
        FieldGet(reg["AUX_MU_IER_REG"], RCV_IRQ) = 3

\* one source was disabled while the other stays enabled, with the mask set
C27_Witness ==
    /\ variant = "Uart1"
    /\ lastOp.op = "disable_interrupts" /\ lastOp.irq_type = "Transmit"
    /\ TxEnabled(lastOp.preReg)
    /\ RxEnabled(reg) /\ ~TxEnabled(reg)
    /\ FieldGet(reg["AUX_MU_IER_REG"], RCV_IRQ) = 3

\* C28: a Uart0 interrupt handler reads the masked interrupt state, writes
\* that value to the interrupt clear register and then calls the callback of
\* the slot once, if there is one; the callback stays in the slot, so every
\* later interrupt calls it again; with an empty slot the handler only
\* acknowledges
C28_AcknowledgeThenCall ==
    (lastOp.op = "uart0_handler") =>
        LET cb == lastOp.preHandler["UART0_INTERRUPT_CB"]
        IN  /\ lastOp.writes = << <<"UART0_ICR", lastOp.status>> >>
            /\ handler = lastOp.preHandler
            /\ reg = lastOp.preReg
            /\ cb = 0 =>
                  /\ lastOp.invoked = <<>>
                  /\ lastOp.events = << <<"get", "UART0_MIS">>,
                                        <<"set", "UART0_ICR">> >>
            /\ cb # 0 =>
                  /\ lastOp.invoked = <<cb>>
                  /\ lastOp.events = << <<"get", "UART0_MIS">>,
                                        <<"set", "UART0_ICR">>,
                                        <<"call", "UART0_INTERRUPT_CB">> >>

\* a receive interrupt of the Uart0 was acknowledged and the callback called,
\* and the callback is still registered
C28_Witness ==
    /\ lastOp.op = "uart0_handler" /\ lastOp.status = 16
    /\ lastOp.writes = << <<"UART0_ICR", 16>> >>
    /\ lastOp.invoked # <<>>
    /\ handler["UART0_INTERRUPT_CB"] = lastOp.invoked[1]

\* C29: a Uart1 interrupt handler calls at most one callback, chosen by the
\* status it read: with an interrupt pending (bit 0 clear) and the
\* transmit-empty id the callback of the transmit slot, otherwise with the
\* receive-data id the callback of the receive slot, and none when nothing
\* is pending or the slot is empty; it empties the slot it chose and leaves
\* the other slots as they were
C29_OneCallbackByCause ==
    (lastOp.op = "uart_handler") =>
        LET chosen == IF lastOp.status = 2 THEN {"TRN_HANDLER"}
                      ELSE IF lastOp.status = 4 THEN {"RCV_HANDLER"}
                      ELSE {}
        IN  /\ Len(lastOp.invoked) <= 1
            /\ \A sl \in chosen :
                  /\ lastOp.preHandler[sl] # 0 =>
                        lastOp.invoked = <<lastOp.preHandler[sl]>>
                  /\ lastOp.preHandler[sl] = 0 => lastOp.invoked = <<>>
                  /\ handler[sl] = 0
            /\ chosen = {} => lastOp.invoked = <<>>
            /\ \A sl \in Slots \ chosen : handler[sl] = lastOp.preHandler[sl]

\* a transmit interrupt came while a receive callback was registered: no
\* callback was called and the receive callback is still in its slot
C29_Witness ==
    /\ lastOp.op = "uart_handler" /\ lastOp.status = 2
    /\ lastOp.preHandler["RCV_HANDLER"] # 0
    /\ handler["RCV_HANDLER"] = lastOp.preHandler["RCV_HANDLER"]
    /\ lastOp.invoked = <<>>

\* the hexadecimal text of a u64 that is not 0: its digits from the most
\* significant one that is not 0 down to the last, in upper case
HexText(value) ==
    LET top == CHOOSE i \in 1..HexDigits :
                   value[i] # 0 /\ \A j \in (i + 1)..HexDigits : value[j] = 0
    IN  [k \in 1..top |->
            LET d == value[top + 1 - k]
            IN  IF d < 10 THEN 48 + d ELSE 55 + d]

\* C30: send_hex(v) on a Ready Uart1 sends the bytes of "0x" and then the
\* upper-case hexadecimal digits of v, the most significant first, without
\* leading zeros and with the zeros inside the number; for 0 it sends "0x0";
\* it sends at most 18 bytes, each written to the data register in order
C30_SendHexText ==
    (lastOp.op = "send_hex" /\ lastOp.wasInit) =>
        LET text == IF lastOp.value = U64Zero THEN <<48, 120, 48>>
                    ELSE <<48, 120>> \o HexText(lastOp.value)
        IN  /\ lastOp.data = text
            /\ Len(text) <= 18
            /\ Len(lastOp.writes) <= Len(text)
            /\ \A i \in 1..Len(lastOp.writes) :
                  lastOp.writes[i] = <<"AUX_MU_IO_REG", text[i]>>
            /\ call = Idle <=> Len(lastOp.writes) = Len(text)

\* send_hex(0x3039) has returned after sending "0x3039"
C30_Witness ==
    /\ lastOp.op = "send_hex" /\ lastOp.wasInit /\ call = Idle
    /\ lastOp.value = U64(<<3, 0, 3, 9>>)
    /\ lastOp.writes = << <<"AUX_MU_IO_REG", 48>>, <<"AUX_MU_IO_REG", 120>>,
                          <<"AUX_MU_IO_REG", 51>>, <<"AUX_MU_IO_REG", 48>>,
                          <<"AUX_MU_IO_REG", 51>>, <<"AUX_MU_IO_REG", 57>> >>

\* C31: in the bounded receive, a wait loop whose last read of the data-ready
\* bit showed data is followed by the read of the byte: when the call has
\* returned the timeout error, the last read of the bit showed no data
C31_DataSeenIsReturned ==
    (BoundedReceive /\ lastOp.seen # -1) =>
        /\ lastOp.seen = 1 =>
              (lastOp.res # "Timeout" /\ Len(lastOp.got) >= 1)
        /\ lastOp.res = "Timeout" => lastOp.seen = 0

\* C32: a bounded receive reads the data register once for each byte it has
\* stored and not at all for a byte that timed out: a call that returned the
\* timeout error has read the register once for each byte before that one,
\* and a step that ends in the timeout error reads nothing
C32_TimeoutReadsNothing ==
    /\ [](BoundedReceive =>
            /\ lastOp.reads = Len(lastOp.got)
            /\ lastOp.res = "Ok" => lastOp.reads = lastOp.len
            /\ lastOp.res = "Timeout" => lastOp.reads < lastOp.len)
    /\ [][(call.op = "try_receive_data" /\ lastOp'.res = "Timeout") =>
              lastOp'.reads = lastOp.reads]_vars

\* the second byte of two timed out: the data register was read once
C32_Witness ==
    /\ BoundedReceive /\ call = Idle /\ lastOp.len = 2
    /\ lastOp.res = "Timeout" /\ lastOp.reads = 1 /\ Len(lastOp.got) = 1

\* the slot of the direction that a Uart1 interrupt status names
SlotOfStatus(st) ==
    IF st = 2 THEN {"TRN_HANDLER"} ELSE IF st = 4 THEN {"RCV_HANDLER"} ELSE {}

\* C33: the Uart1 interrupt handler empties the slot before it calls the
\* callback: a callback that, while it runs, registers a callback for its
\* own direction leaves that callback in the slot when the handler returns,
\* and a handler run calls the callback that the slot of its direction held
C33_RegisteredWhileRunningIsKept ==
    (lastOp.op = "uart_handler") =>
        /\ \A sl \in SlotOfStatus(lastOp.status) :
              (lastOp.invoked # <<>> /\ sl \in SlotsOf(lastOp.irq_type)
                 /\ lastOp.irq_type # "none") =>
                  handler[sl] = lastOp.cb
        /\ \A sl \in SlotOfStatus(lastOp.status) :
              lastOp.preHandler[sl] # 0 =>
                  lastOp.invoked = <<lastOp.preHandler[sl]>>

====
